---- MODULE Spec2Model ----
(***************************************************************************)
(* Mind Scale match engine: lobby (src/game.py), round engine, scoring     *)
(* pipeline and finalizer (src/plugins/game/core.py, identical in logic to *)
(* the copies in src/game.py).                                             *)
(*                                                                         *)
(* Scheduling.  The application is built without concurrent_updates       *)
(* (src/bot.py:764), so update handlers run one at a time: the next update *)
(* is not dispatched before the previous handler has returned.  Tasks made *)
(* with asyncio.create_task (the join-phase scheduler, the per-player     *)
(* timeout timers, the start_round task made by process_round_results)    *)
(* interleave with the handler and with each other at every await.  An     *)
(* action of this model is the code between two awaits of one coroutine.   *)
(* Consecutive awaits with no state change between them are one await.     *)
(* A task that create_task has made and that has not started is run by    *)
(* the loop in its next iteration, so it takes its first step before any   *)
(* update, any completed await or any expired sleep is served.             *)
(***************************************************************************)
EXTENDS Integers, Sequences, FiniteSets, TLC

\* ---------------------------------------------------------------- constants
MIN_PLAYERS == 5
MAX_PLAYERS == 7

\* current_number: None, the "Skipped" marker, or a number 0..100
NONE == -1
SKIPPED == -2

\* ------------------------------------------------------------------- bounds
NumGroups == 2
NumUsers == 7
MaxGames == 3
MaxRound == 6
LastRound == 4
LowScorers == 2
PlayedRounds == 2
Survivors == 2
MaxRoundSpec == 1
MaxParked == 2
MaxParkedSpec == 1
NumLocals == 3
NumRoamers == 2
NumTalkers == 2
MaxLive == 1
MaxLiveLobby == 2

Groups == 1..NumGroups
Users == 1..NumUsers
GameIds == 1..MaxGames

\* message texts a user sends in DM: numbers in range, a number out of range,
\* and a text that is not made of digits
OUT_OF_RANGE == 101
NOT_DIGITS == -3
PickValues == {0, 100}
Texts == PickValues \cup {OUT_OF_RANGE, NOT_DIGITS}

\* the users that are members of the chat of a group, where groups are side
\* by side: the first NumLocals users are in the first group, the first
\* NumRoamers of them are in the other groups as well
InChat(grp) == IF grp = 1 THEN 1..NumLocals ELSE 1..NumRoamers

VARIABLES
    active_games,       \* group_id -> game instance (0: absent)
    user_active_game,   \* user_id -> group_id (0: absent)
    games,              \* game instance -> MindScaleGame fields
    pl,                 \* game instance -> user -> Player fields
    tasks,              \* frames of the asyncio tasks that are alive
    sleepers,           \* the timeout tasks asleep, in the order they were made
    handler,            \* frame of the update handler in flight
    rr                  \* game instance -> what its last resolution computed

vars ==
    <<active_games, user_active_game, games, pl, tasks, sleepers, handler, rr>>

\* ------------------------------------------------------------------ helpers
Range(s) == {s[i] : i \in 1..Len(s)}

Without(s, u) == SelectSeq(s, LAMBDA x : x # u)

BlankPlayer ==
    [current_number |-> NONE, score |-> 0, eliminated |-> FALSE,
     timeout_count |-> 0, total_penalties |-> 0]

BlankGame ==
    [group_id |-> 0, players |-> <<>>, join_phase_active |-> TRUE,
     round_number |-> 0, current_round_active |-> FALSE,
     round_results_sent |-> FALSE, duplicate_rule_active |-> FALSE,
     next_round_duplicate_active |-> FALSE, ended |-> FALSE,
     pick_tasks |-> [u \in Users |-> 0], join_timer_task |-> 0]

NoPicks == [u \in Users |-> NONE]

\* the locals of process_round_results that its result message prints (target,
\* winner_players), the picks and players it scored, the scores it found, how
\* often process_round_results was entered for each round number (counted up
\* to 2) and how often its rule pipeline ran; and what the match wrote to the
\* statistics: the calls of update_user_after_game for each user and those
\* with won=True (counted up to 2), and the champion it announced
BlankResult ==
    [round |-> 0, picks |-> NoPicks, alive |-> {}, winners |-> {},
     tnum |-> 0, tden |-> 0,
     pre |-> [u \in Users |-> BlankPlayer],
     calls |-> [r \in 1..MaxRound |-> 0],
     scored |-> [r \in 1..MaxRound |-> 0],
     stats |-> [u \in Users |-> 0],
     won |-> [u \in Users |-> 0],
     champion |-> 0]

\* a coroutine frame: k is the task it runs in, pc the await it is parked at,
\* the rest are the locals that live across that await.  The frame of a task
\* that has not started yet has in g the match that made the task: the task
\* itself takes the match from the registry when it starts.
Idle ==
    [k |-> "idle", pc |-> "idle", grp |-> 0, g |-> 0, u |-> 0, n |-> 0,
     todo |-> <<>>, picks |-> NoPicks, alive |-> {}]

Fr(k, pc, grp, g, u, n) ==
    [Idle EXCEPT !.k = k, !.pc = pc, !.grp = grp, !.g = g, !.u = u, !.n = n]

\* frame f moved to another await, its locals kept
At(f, pc) == [f EXCEPT !.pc = pc]

\* the program state the coroutines read and write
World ==
    [ag |-> active_games, uag |-> user_active_game, games |-> games,
     pl |-> pl, tasks |-> tasks, sl |-> sleepers, rr |-> rr]

IsNumber(x) == x >= 0

Members(w, g) == Range(w.games[g].players)

\* MindScaleGame.active_players without its "if not p.eliminated" filter
ActiveSetUnfiltered(w, g) == Members(w, g)

\* MindScaleGame.active_players, as a set and in dict order
ActiveSet(w, g) == {u \in Members(w, g) : ~w.pl[g][u].eliminated}

ActiveSeq(w, g) ==
    SelectSeq(w.games[g].players, LAMBDA u : ~w.pl[g][u].eliminated)

\* task.cancel() on the timeout tasks held in pick_tasks for the users in U:
\* a task asleep is ended; a task past its sleep is parked inside try/except:
\* and swallows the cancellation
CancelTimers(w, g, U) ==
    [w EXCEPT !.sl = SelectSeq(@, LAMBDA t :
        ~(t.g = g /\ t.u \in U /\ t.n = w.games[g].pick_tasks[t.u]))]

ClearPickTasks(w, g) ==
    [w EXCEPT !.games[g].pick_tasks = [u \in Users |-> 0]]

\* MindScaleGame.add_player
AddPlayer(w, g, u) ==
    IF u \in Members(w, g) THEN w
    ELSE [w EXCEPT !.games[g].players = Append(@, u),
                   !.pl[g][u] = BlankPlayer,
                   !.uag[u] = w.games[g].group_id]

\* MindScaleGame.remove_player
RemovePlayer(w, g, u) ==
    [w EXCEPT !.games[g].players = Without(@, u),
              !.pl[g][u] = BlankPlayer,
              !.uag[u] = 0]

\* MindScaleGame.reset_round_picks
ResetRoundPicks(w, g) ==
    [w EXCEPT !.pl[g] = [u \in Users |->
        IF u \in Members(w, g) THEN [@[u] EXCEPT !.current_number = NONE]
        ELSE @[u]]]

\* ---------------------------------------------------------- scoring engine
RECURSIVE SumOver(_, _)
SumOver(f, S) ==
    IF S = {} THEN 0
    ELSE LET x == CHOOSE y \in S : TRUE IN f[x] + SumOver(f, S \ {x})

Abs(x) == IF x < 0 THEN -x ELSE x

\* picks = [(uid, number) ...]: the users that have an entry
Pickers(picks) == {u \in DOMAIN picks : IsNumber(picks[u])}

\* the target without the factor 0.8
TargetNumOfMean(picks) == 5 * SumOver(picks, Pickers(picks))

\* target = (sum(nums) / len(nums)) * 0.8, kept as the fraction
\* TargetNum / TargetDen (the floats of the code order and round every case
\* of up to 7 picks in 0..100 as the exact fraction does)
TargetNum(picks) == 4 * SumOver(picks, Pickers(picks))

TargetDen(picks) == 5 * Cardinality(Pickers(picks))

\* abs(p.current_number - target), times TargetDen
Diff(picks, x) == Abs(TargetDen(picks) * x - TargetNum(picks))

\* no number is the rounded target
RoundTargetNone(picks) == -5

\* round(target); a target is never halfway between two integers
RoundTarget(picks) ==
    (2 * TargetNum(picks) + TargetDen(picks)) \div (2 * TargetDen(picks))

\* no number counts as a duplicate
DuplicateNumsNone(picks) == {}

\* counts[num] >= 4
DuplicateNums(picks) ==
    {x \in {picks[u] : u \in Pickers(picks)} :
        Cardinality({u \in Pickers(picks) : picks[u] = x}) >= 4}

\* every player with a number wins
ClosestWinnersAll(w, g, picks, alive) ==
    {u \in alive : IsNumber(w.pl[g][u].current_number)}

\* winner_players of the closest-number step: alive_players with a number
\* at the least distance, not eliminated
ClosestWinners(w, g, picks, alive) ==
    LET cur(u) == w.pl[g][u].current_number
        cand == {u \in alive : IsNumber(cur(u))}
    IN {u \in cand : /\ \A v \in cand : Diff(picks, cur(u)) <= Diff(picks, cur(v))
                     /\ ~w.pl[g][u].eliminated}

\* the 0 vs 100 case left out
ZeroVsHundredNever(w, g) == FALSE

\* zero_vs_hundred_case: two players are not eliminated, and 0 and 100 are
\* among their numbers
ZeroVsHundred(w, g) ==
    LET alive_now == ActiveSet(w, g)
        vals == {w.pl[g][u].current_number :
                    u \in {v \in alive_now : IsNumber(w.pl[g][v].current_number)}}
    IN Cardinality(alive_now) = 2 /\ 0 \in vals /\ 100 \in vals

\* the rule pipeline without the "if duplicates_exist: continue" of its last
\* loop
PipelineGenericAlways(w, g, picks, alive) ==
    LET gm == w.games[g]
        cur(u) == w.pl[g][u].current_number
        num_alive == Cardinality(alive)
        rule_on == num_alive > 2 /\ gm.duplicate_rule_active
        duplicate_nums == IF rule_on THEN DuplicateNums(picks) ELSE {}
        duplicates_exist == duplicate_nums # {}
        duplicate_players ==
            {u \in ActiveSet(w, g) : cur(u) \in duplicate_nums}
        alive_now == ActiveSet(w, g)
        zero_vs_hundred_case == ZeroVsHundred(w, g)
        p100 == CHOOSE u \in alive_now : cur(u) = 100
        winners1 == IF zero_vs_hundred_case THEN {p100}
                    ELSE ClosestWinners(w, g, picks, alive)
        num_eliminated ==
            Cardinality({u \in Members(w, g) : w.pl[g][u].eliminated})
        exact_target_players ==
            IF num_eliminated >= 2 /\ ~zero_vs_hundred_case /\ ~duplicates_exist
            THEN {u \in alive : cur(u) = RoundTarget(picks)}
            ELSE {}
        special_penalty_applied == exact_target_players # {}
        winner_players ==
            IF special_penalty_applied THEN exact_target_players ELSE winners1
        penalty(u) ==
            (IF u \in duplicate_players THEN 1 ELSE 0)
            + (IF zero_vs_hundred_case /\ u \in alive_now /\ u # p100
                  /\ u \notin duplicate_players THEN 1 ELSE 0)
            + (IF special_penalty_applied /\ u \in alive
                  /\ u \notin winner_players /\ u \notin duplicate_players
               THEN 2 ELSE 0)
            + (IF ~zero_vs_hundred_case /\ u \in alive
                  /\ u \notin duplicate_players /\ u \notin winner_players
                  /\ ~special_penalty_applied
               THEN 1 ELSE 0)
    IN [winner_players |-> winner_players,
        penalty |-> [u \in Users |-> penalty(u)],
        num_eliminated |-> num_eliminated,
        share4 |-> DuplicateNums(picks) # {}]

\* the rule pipeline of process_round_results, from the duplicate detection
\* to the elimination check: the outcome as a record of the locals and of
\* each player's penalty
Pipeline(w, g, picks, alive) ==
    LET gm == w.games[g]
        cur(u) == w.pl[g][u].current_number
        num_alive == Cardinality(alive)
        rule_on == num_alive > 2 /\ gm.duplicate_rule_active
        duplicate_nums == IF rule_on THEN DuplicateNums(picks) ELSE {}
        duplicates_exist == duplicate_nums # {}
        duplicate_players ==
            {u \in ActiveSet(w, g) : cur(u) \in duplicate_nums}
        alive_now == ActiveSet(w, g)
        zero_vs_hundred_case == ZeroVsHundred(w, g)
        p100 == CHOOSE u \in alive_now : cur(u) = 100
        winners1 == IF zero_vs_hundred_case THEN {p100}
                    ELSE ClosestWinners(w, g, picks, alive)
        num_eliminated ==
            Cardinality({u \in Members(w, g) : w.pl[g][u].eliminated})
        exact_target_players ==
            IF num_eliminated >= 2 /\ ~zero_vs_hundred_case /\ ~duplicates_exist
            THEN {u \in alive : cur(u) = RoundTarget(picks)}
            ELSE {}
        special_penalty_applied == exact_target_players # {}
        winner_players ==
            IF special_penalty_applied THEN exact_target_players ELSE winners1
        penalty(u) ==
            (IF u \in duplicate_players THEN 1 ELSE 0)
            + (IF zero_vs_hundred_case /\ u \in alive_now /\ u # p100
                  /\ u \notin duplicate_players THEN 1 ELSE 0)
            + (IF special_penalty_applied /\ u \in alive
                  /\ u \notin winner_players /\ u \notin duplicate_players
               THEN 2 ELSE 0)
            + (IF ~zero_vs_hundred_case /\ u \in alive
                  /\ u \notin duplicate_players /\ u \notin winner_players
                  /\ ~duplicates_exist /\ ~special_penalty_applied
               THEN 1 ELSE 0)
    IN [winner_players |-> winner_players,
        penalty |-> [u \in Users |-> penalty(u)],
        num_eliminated |-> num_eliminated,
        share4 |-> DuplicateNums(picks) # {}]

\* the rule pipeline without the elimination check
ScoreKeepsPlayers(w, g, picks, alive) ==
    LET r == Pipeline(w, g, picks, alive)
        scored == [u \in Users |->
            [w.pl[g][u] EXCEPT !.score = @ - r.penalty[u],
                               !.total_penalties = @ + r.penalty[u]]]
        rn == w.games[g].round_number
    IN [w EXCEPT
          !.pl[g] = scored,
          !.games[g].next_round_duplicate_active = @ \/ r.share4,
          !.rr[g].winners = r.winner_players,
          !.rr[g].pre = w.pl[g],
          !.rr[g].scored = [x \in 1..MaxRound |->
              IF x = rn THEN @[x] + 1 ELSE @[x]]]

\* process_round_results between its reveal message and its result message
Score(w, g, picks, alive) ==
    LET r == Pipeline(w, g, picks, alive)
        scored == [u \in Users |->
            [w.pl[g][u] EXCEPT !.score = @ - r.penalty[u],
                               !.total_penalties = @ + r.penalty[u]]]
        eliminated_now ==
            {u \in Members(w, g) : ~scored[u].eliminated /\ scored[u].score <= -10}
        after == [u \in Users |->
            IF u \in eliminated_now THEN [scored[u] EXCEPT !.eliminated = TRUE]
            ELSE scored[u]]
        rn == w.games[g].round_number
    IN [w EXCEPT
          !.pl[g] = after,
          !.games[g].next_round_duplicate_active =
              @ \/ r.share4 \/ (eliminated_now # {} /\ r.num_eliminated = 0),
          !.rr[g].winners = r.winner_players,
          !.rr[g].pre = w.pl[g],
          !.rr[g].scored = [x \in 1..MaxRound |->
              IF x = rn THEN @[x] + 1 ELSE @[x]]]

\* ---------------------------------------------------------------- finalizer
\* what a segment leaves behind: the program state and the frame to resume
\* (Idle when the coroutine has returned)
R(w, f) == [w |-> w, f |-> f]

\* one more call of update_user_after_game for each user in U, with won=True
\* for the user champ
Recorded(w, g, U, champ) ==
    [w EXCEPT
       !.rr[g].stats = [u \in Users |->
           IF u \in U /\ @[u] < 2 THEN @[u] + 1 ELSE @[u]],
       !.rr[g].won = [u \in Users |->
           IF u \in U /\ u = champ /\ @[u] < 2 THEN @[u] + 1 ELSE @[u]]]

\* a sort that puts a player before the players with the same score
InsertByScoreUnstable(w, g, s, u) ==
    LET before == SelectSeq(s, LAMBDA v : w.pl[g][v].score > w.pl[g][u].score)
        after == SelectSeq(s, LAMBDA v : w.pl[g][v].score <= w.pl[g][u].score)
    IN before \o <<u>> \o after

\* sorted(..., key=lambda p: -p.score): the sort is stable, so a player goes
\* behind the players before it in s that have the same score
RECURSIVE InsertByScore(_, _, _, _)
InsertByScore(w, g, s, u) ==
    IF s = <<>> THEN <<u>>
    ELSE IF w.pl[g][Head(s)].score >= w.pl[g][u].score
    THEN <<Head(s)>> \o InsertByScore(w, g, Tail(s), u)
    ELSE <<u>> \o s

RECURSIVE SortedByScore(_, _, _)
SortedByScore(w, g, s) ==
    IF s = <<>> THEN <<>>
    ELSE InsertByScore(w, g, SortedByScore(w, g, SubSeq(s, 1, Len(s) - 1)),
                       s[Len(s)])

\* winner = winners[0] if winners else (players_sorted[0] if players_sorted
\* else None)
Winner(w, g) ==
    LET players_sorted == SortedByScore(w, g, w.games[g].players)
        winners == SelectSeq(players_sorted, LAMBDA u : ~w.pl[g][u].eliminated)
    IN IF winners # <<>> THEN Head(winners)
       ELSE IF players_sorted # <<>> THEN Head(players_sorted)
       ELSE 0

\* end_game without its "if game.ended: return" and with the match left in
\* the registry
EndGameAgain(w, grp) ==
    IF w.ag[grp] = 0 THEN w
    ELSE LET g == w.ag[grp]
             w1 == Recorded(CancelTimers(w, g, Users), g, Members(w, g),
                            Winner(w, g))
         IN [w1 EXCEPT
               !.games[g].ended = TRUE,
               !.games[g].pick_tasks = [u \in Users |-> 0],
               !.rr[g].champion = Winner(w, g),
               !.uag = [u \in Users |-> IF u \in Members(w, g) THEN 0 ELSE @[u]]]

\* end_game: it has no await, so it runs in one piece
EndGame(w, grp) ==
    IF w.ag[grp] = 0 THEN w
    ELSE LET g == w.ag[grp] IN
      IF w.games[g].ended THEN w
      ELSE LET w1 == Recorded(CancelTimers(w, g, Users), g, Members(w, g),
                              Winner(w, g))
           IN [w1 EXCEPT
                 !.games[g].ended = TRUE,
                 !.games[g].pick_tasks = [u \in Users |-> 0],
                 !.rr[g].champion = Winner(w, g),
                 !.uag = [u \in Users |-> IF u \in Members(w, g) THEN 0 ELSE @[u]],
                 !.ag[grp] = 0]

\* end_game without the try/except around the two calls of the statistics
\* sink: the first player for whom the sink raises ends end_game, after the
\* records of the players sorted before it
EndGameSinkAborts(w, grp, failed) ==
    IF w.ag[grp] = 0 THEN w
    ELSE LET g == w.ag[grp] IN
      IF w.games[g].ended THEN w
      ELSE LET players_sorted == SortedByScore(w, g, w.games[g].players)
               first == CHOOSE i \in 1..(Len(players_sorted) + 1) :
                   /\ \A j \in 1..(i - 1) : players_sorted[j] \notin failed
                   /\ i <= Len(players_sorted) => players_sorted[i] \in failed
               done == {players_sorted[j] : j \in 1..(first - 1)}
               w1 == Recorded(w, g, done, Winner(w, g))
           IN [w1 EXCEPT !.games[g].ended = TRUE,
                         !.rr[g].champion = Winner(w, g)]

\* end_game when ensure_user_exists or update_user_after_game raises for the
\* players in failed: the except of the loop logs it and the loop goes on
EndGameSinkFails(w, grp, failed) ==
    IF w.ag[grp] = 0 THEN w
    ELSE LET g == w.ag[grp] IN
      IF w.games[g].ended THEN w
      ELSE LET w1 == Recorded(CancelTimers(w, g, Users), g,
                              Members(w, g) \ failed, Winner(w, g))
           IN [w1 EXCEPT
                 !.games[g].ended = TRUE,
                 !.games[g].pick_tasks = [u \in Users |-> 0],
                 !.rr[g].champion = Winner(w, g),
                 !.uag = [u \in Users |-> IF u \in Members(w, g) THEN 0 ELSE @[u]],
                 !.ag[grp] = 0]

\* ------------------------------------------------------------- round engine
\* one more entry of process_round_results for the round of game g
Entered(w, g) ==
    [w EXCEPT !.rr[g].calls = [r \in 1..MaxRound |->
        IF r = w.games[g].round_number /\ @[r] < 2 THEN @[r] + 1 ELSE @[r]]]

\* process_round_results without its "if game.round_results_sent: return"
ProcessRoundResultsUnguarded(w, f) ==
    IF w.ag[f.grp] = 0 THEN R(w, Idle)
    ELSE LET g == w.ag[f.grp]
             picks == [u \in Users |->
                IF u \in ActiveSet(w, g) /\ IsNumber(w.pl[g][u].current_number)
                THEN w.pl[g][u].current_number ELSE NONE]
             w0 == Entered(w, g)
             w1 == [w0 EXCEPT !.games[g].round_results_sent = TRUE]
         IN IF Pickers(picks) = {}
            THEN R(w1, Fr(f.k, "prr_nopicks", f.grp, g, 0, 0))
            ELSE R([w1 EXCEPT !.rr[g] = [BlankResult EXCEPT
                        !.round = w.games[g].round_number,
                        !.picks = picks,
                        !.alive = ActiveSet(w, g),
                        !.tnum = TargetNum(picks),
                        !.tden = TargetDen(picks),
                        !.calls = w0.rr[g].calls,
                        !.scored = w.rr[g].scored,
                        !.stats = w.rr[g].stats,
                        !.won = w.rr[g].won,
                        !.champion = w.rr[g].champion]],
                   [Fr(f.k, "prr_reveal", f.grp, g, 0, 0) EXCEPT
                        !.picks = picks, !.alive = ActiveSet(w, g)])

\* process_round_results up to its first message
ProcessRoundResults(w, f) ==
    IF w.ag[f.grp] = 0 THEN R(w, Idle)
    ELSE LET g == w.ag[f.grp] IN
      IF w.games[g].round_results_sent THEN R(Entered(w, g), Idle)
      ELSE
        LET picks == [u \in Users |->
                IF u \in ActiveSet(w, g) /\ IsNumber(w.pl[g][u].current_number)
                THEN w.pl[g][u].current_number ELSE NONE]
            w0 == Entered(w, g)
            w1 == [w0 EXCEPT !.games[g].round_results_sent = TRUE]
        IN IF Pickers(picks) = {}
           THEN R(w1, Fr(f.k, "prr_nopicks", f.grp, g, 0, 0))
           ELSE R([w1 EXCEPT !.rr[g] = [BlankResult EXCEPT
                        !.round = w.games[g].round_number,
                        !.picks = picks,
                        !.alive = ActiveSet(w, g),
                        !.tnum = TargetNum(picks),
                        !.tden = TargetDen(picks),
                        !.calls = w0.rr[g].calls,
                        !.scored = w.rr[g].scored,
                        !.stats = w.rr[g].stats,
                        !.won = w.rr[g].won,
                        !.champion = w.rr[g].champion]],
                  [Fr(f.k, "prr_reveal", f.grp, g, 0, 0) EXCEPT
                        !.picks = picks, !.alive = ActiveSet(w, g)])

\* ... with the generic penalty given to the players before the match ends
PrrNoPicksPenalises(w, f) ==
    R(EndGame([w EXCEPT !.pl[f.g] = [u \in Users |->
                  IF u \in ActiveSet(w, f.g) THEN [@[u] EXCEPT !.score = @ - 1]
                  ELSE @[u]]], f.grp), Idle)

\* ... after "No valid picks received this round."
PrrNoPicks(w, f) == R(EndGame(w, f.grp), Idle)

\* ... from the duplicate detection to the elimination check
PrrScore(w, f) ==
    R(Score(w, f.g, f.picks, f.alive), Fr(f.k, "prr_results", f.grp, f.g, 0, 0))

\* ... from "if game ended" to the end, with the duplicate rule kept on once
\* it is on
PrrFinishKeepsRule(w, f) ==
    LET g == f.g IN
    IF Cardinality(ActiveSet(w, g)) <= 1 THEN R(EndGame(w, f.grp), Idle)
    ELSE LET w1 == ClearPickTasks(CancelTimers(ResetRoundPicks(w, g), g, Users), g)
         IN R([w1 EXCEPT
                 !.games[g].current_round_active = FALSE,
                 !.games[g].round_results_sent = FALSE,
                 !.games[g].duplicate_rule_active =
                     @ \/ w.games[g].next_round_duplicate_active,
                 !.games[g].next_round_duplicate_active = FALSE,
                 !.rr[g] = [BlankResult EXCEPT !.scored = w.rr[g].scored,
                                               !.calls = w.rr[g].calls,
                                               !.stats = w.rr[g].stats,
                                               !.won = w.rr[g].won,
                                               !.champion = w.rr[g].champion],
                 !.tasks = @ \cup
                     {Fr("sr", "sr_new", f.grp, g, 0, w.games[g].round_number)}],
              Idle)

\* ... from "if game ended" to the end
PrrFinish(w, f) ==
    LET g == f.g IN
    IF Cardinality(ActiveSet(w, g)) <= 1 THEN R(EndGame(w, f.grp), Idle)
    ELSE LET w1 == ClearPickTasks(CancelTimers(ResetRoundPicks(w, g), g, Users), g)
         IN R([w1 EXCEPT
                 !.games[g].current_round_active = FALSE,
                 !.games[g].round_results_sent = FALSE,
                 !.games[g].duplicate_rule_active =
                     w.games[g].next_round_duplicate_active,
                 !.games[g].next_round_duplicate_active = FALSE,
                 !.rr[g] = [BlankResult EXCEPT !.scored = w.rr[g].scored,
                                               !.calls = w.rr[g].calls,
                                               !.stats = w.rr[g].stats,
                                               !.won = w.rr[g].won,
                                               !.champion = w.rr[g].champion],
                 !.tasks = @ \cup
                     {Fr("sr", "sr_new", f.grp, g, 0, w.games[g].round_number)}],
              Idle)

\* start_round up to its first message
StartRound(w, f) ==
    IF w.ag[f.grp] = 0 THEN R(w, Idle)
    ELSE LET g == w.ag[f.grp] IN
      IF w.games[g].current_round_active THEN R(w, Idle)
      ELSE LET w1 == ClearPickTasks(CancelTimers(ResetRoundPicks(w, g), g, Users), g)
           IN R([w1 EXCEPT
                   !.games[g].current_round_active = TRUE,
                   !.games[g].round_number = @ + 1,
                   !.games[g].round_results_sent = FALSE],
                Fr(f.k, "sr_announce", f.grp, g, 0, w.games[g].round_number + 1))

\* ... players = game.active_players, after the announcement
SrPlayers(w, f) ==
    IF ActiveSeq(w, f.g) = <<>> THEN R(EndGame(w, f.grp), Idle)
    ELSE R(w, [At(f, "sr_dm") EXCEPT !.todo = ActiveSeq(w, f.g)])

\* the players the loop passes over with "if p.eliminated: continue"
RECURSIVE SkipEliminated(_, _, _)
SkipEliminated(w, g, s) ==
    IF s = <<>> THEN s
    ELSE IF w.pl[g][Head(s)].eliminated THEN SkipEliminated(w, g, Tail(s))
    ELSE s

\* ... one turn of the loop, after the DM to the player at the head of todo:
\* the timeout task is made and stored in pick_tasks
SrArm(w, f) ==
    LET u == Head(f.todo)
        w1 == [w EXCEPT
                 !.sl = Append(@, Fr("timer", "sleep", f.grp, f.g, u, f.n)),
                 !.games[f.g].pick_tasks[u] = f.n]
        rest == SkipEliminated(w1, f.g, Tail(f.todo))
    IN IF rest = <<>> THEN R(w1, Idle)
       ELSE R(w1, [f EXCEPT !.todo = rest])

\* handle_miss with the penalty of the first miss given for every miss
HandleMissPenalisesAgain(w, f) ==
    IF w.ag[f.grp] = 0 \/ f.u \notin Members(w, f.g) THEN R(w, Idle)
    ELSE LET p == w.pl[f.g][f.u] IN
      IF p.eliminated \/ p.current_number # NONE THEN R(w, Idle)
      ELSE IF p.timeout_count = 0
      THEN R([w EXCEPT !.pl[f.g][f.u] =
                  [p EXCEPT !.score = @ - 1, !.total_penalties = @ + 1,
                            !.timeout_count = 1, !.current_number = SKIPPED]],
             At(f, "hm_msg"))
      ELSE R([w EXCEPT !.pl[f.g][f.u] =
                  [p EXCEPT !.score = @ - 1, !.total_penalties = @ + 1,
                            !.eliminated = TRUE]],
             At(f, "hm_msg"))

\* handle_miss without its "p.current_number is not None" check
HandleMissUnchecked(w, f) ==
    IF w.ag[f.grp] = 0 \/ f.u \notin Members(w, f.g) THEN R(w, Idle)
    ELSE LET p == w.pl[f.g][f.u] IN
      IF p.eliminated THEN R(w, Idle)
      ELSE IF p.timeout_count = 0
      THEN R([w EXCEPT !.pl[f.g][f.u] =
                  [p EXCEPT !.score = @ - 1, !.total_penalties = @ + 1,
                            !.timeout_count = 1, !.current_number = SKIPPED]],
             At(f, "hm_msg"))
      ELSE R([w EXCEPT !.pl[f.g][f.u].eliminated = TRUE], At(f, "hm_msg"))

\* handle_miss up to its message
HandleMiss(w, f) ==
    IF w.ag[f.grp] = 0 \/ f.u \notin Members(w, f.g) THEN R(w, Idle)
    ELSE LET p == w.pl[f.g][f.u] IN
      IF p.eliminated \/ p.current_number # NONE THEN R(w, Idle)
      ELSE IF p.timeout_count = 0
      THEN R([w EXCEPT !.pl[f.g][f.u] =
                  [p EXCEPT !.score = @ - 1, !.total_penalties = @ + 1,
                            !.timeout_count = 1, !.current_number = SKIPPED]],
             At(f, "hm_msg"))
      ELSE R([w EXCEPT !.pl[f.g][f.u].eliminated = TRUE], At(f, "hm_msg"))

\* ... from the pops of the task handles to the end
HmFinish(w, f) ==
    LET w1 == [w EXCEPT !.games[f.g].pick_tasks[f.u] = 0] IN
    IF /\ w1.ag[f.grp] # 0
       /\ \A v \in ActiveSet(w1, f.g) : w1.pl[f.g][v].current_number # NONE
    THEN ProcessRoundResults(
             [w1 EXCEPT !.games[f.g].current_round_active = FALSE], f)
    ELSE R(w1, Idle)

\* dm_pick_handler without its "player.current_number is not None" check
DmPickOverwrites(w, u, text) ==
    IF w.uag[u] = 0 THEN [w |-> w, f |-> Idle, res |-> "NotParticipating"]
    ELSE LET grp == w.uag[u] IN
      IF w.ag[grp] = 0
      THEN [w |-> [w EXCEPT !.uag[u] = 0], f |-> Idle, res |-> "GameGone"]
      ELSE LET g == w.ag[grp]
               res == IF ~w.games[g].current_round_active THEN "NoActiveRound"
                      ELSE IF text = NOT_DIGITS THEN "NotANumber"
                      ELSE IF ~(0 <= text /\ text <= 100) THEN "OutOfRange"
                      ELSE IF u \notin Members(w, g) THEN "NotListed"
                      ELSE IF w.pl[g][u].eliminated THEN "AlreadyEliminated"
                      ELSE "Accepted"
           IN IF res = "Accepted"
              THEN [w |-> [w EXCEPT !.pl[g][u].current_number = text],
                    f |-> Fr("handler", "dm_ack", grp, g, u, 0), res |-> res]
              ELSE [w |-> w, f |-> Idle, res |-> res]

\* dm_pick_handler with the number stored before the checks on it
DmPickRecordsFirst(w, u, text) ==
    IF w.uag[u] = 0 THEN [w |-> w, f |-> Idle, res |-> "NotParticipating"]
    ELSE LET grp == w.uag[u] IN
      IF w.ag[grp] = 0
      THEN [w |-> [w EXCEPT !.uag[u] = 0], f |-> Idle, res |-> "GameGone"]
      ELSE LET g == w.ag[grp]
               res == IF ~w.games[g].current_round_active THEN "NoActiveRound"
                      ELSE IF text = NOT_DIGITS THEN "NotANumber"
                      ELSE IF ~(0 <= text /\ text <= 100) THEN "OutOfRange"
                      ELSE IF u \notin Members(w, g) THEN "NotListed"
                      ELSE IF w.pl[g][u].eliminated THEN "AlreadyEliminated"
                      ELSE IF w.pl[g][u].current_number # NONE THEN "AlreadyPicked"
                      ELSE "Accepted"
               w1 == IF u \in Members(w, g)
                     THEN [w EXCEPT !.pl[g][u].current_number = text] ELSE w
           IN IF res = "Accepted"
              THEN [w |-> w1, f |-> Fr("handler", "dm_ack", grp, g, u, 0),
                    res |-> res]
              ELSE [w |-> w1, f |-> Idle, res |-> res]

\* dm_pick_handler up to its first await after the checks: the outcome and,
\* when the pick is taken, the frame parked at the acknowledgement
DmPick(w, u, text) ==
    IF w.uag[u] = 0 THEN [w |-> w, f |-> Idle, res |-> "NotParticipating"]
    ELSE LET grp == w.uag[u] IN
      IF w.ag[grp] = 0
      THEN [w |-> [w EXCEPT !.uag[u] = 0], f |-> Idle, res |-> "GameGone"]
      ELSE LET g == w.ag[grp]
               res == IF ~w.games[g].current_round_active THEN "NoActiveRound"
                      ELSE IF text = NOT_DIGITS THEN "NotANumber"
                      ELSE IF ~(0 <= text /\ text <= 100) THEN "OutOfRange"
                      ELSE IF u \notin Members(w, g) THEN "NotListed"
                      ELSE IF w.pl[g][u].eliminated THEN "AlreadyEliminated"
                      ELSE IF w.pl[g][u].current_number # NONE THEN "AlreadyPicked"
                      ELSE "Accepted"
           IN IF res = "Accepted"
              THEN [w |-> [w EXCEPT !.pl[g][u].current_number = text],
                    f |-> Fr("handler", "dm_ack", grp, g, u, 0), res |-> res]
              ELSE [w |-> w, f |-> Idle, res |-> res]

\* ... when the reply_text of the acknowledgement raises: the exception ends
\* the handler, with the number recorded
DmAckFails(w, f) == R(w, Idle)

\* ... from the pops of the task handles to the end
DmFinish(w, f) ==
    LET g == f.g
        w1 == [CancelTimers(w, g, {f.u}) EXCEPT !.games[g].pick_tasks[f.u] = 0]
    IN IF \A v \in Members(w1, g) :
              w1.pl[g][v].current_number # NONE \/ w1.pl[g][v].eliminated
       THEN ProcessRoundResults(ClearPickTasks(CancelTimers(w1, g, Users), g), f)
       ELSE R(w1, Idle)

\* -------------------------------------------------------------------- lobby
\* the instance a new MindScaleGame gets: the first one not in use
FreeIds(w) == {g \in GameIds : w.games[g].group_id = 0}

NewId(w) == CHOOSE g \in FreeIds(w) : \A h \in FreeIds(w) : g <= h

\* mode_selection without its "if group_id in active_games" check
ModeSelectionUnchecked(w, grp) ==
    LET g == NewId(w) IN
      [w |-> [w EXCEPT !.games[g] = [BlankGame EXCEPT !.group_id = grp],
                       !.ag[grp] = g],
       f |-> Fr("handler", "ms_edit", grp, g, 0, 0), res |-> "Created"]

\* mode_selection, start_solo, up to the edit of the caption
ModeSelection(w, grp) ==
    IF w.ag[grp] # 0 THEN [w |-> w, f |-> Idle, res |-> "AlreadyActive"]
    ELSE LET g == NewId(w) IN
      [w |-> [w EXCEPT !.games[g] = [BlankGame EXCEPT !.group_id = grp],
                       !.ag[grp] = g],
       f |-> Fr("handler", "ms_edit", grp, g, 0, 0), res |-> "Created"]

\* ... asyncio.create_task(join_phase_scheduler(context, group_id))
MsSchedule(w, f) ==
    R([w EXCEPT !.tasks = @ \cup {Fr("sched", "js_new", f.grp, f.g, 0, 0)}], Idle)

\* join_timer.cancel(); game.join_timer_task = None, when it is not done
CancelJoinTimer(w, g) ==
    IF w.games[g].join_timer_task = 1
    THEN [w EXCEPT !.games[g].join_timer_task = 0] ELSE w

\* end_join_phase without its "if num_joined < 5" branch
EndJoinPhaseAnyCount(w, f) ==
    IF w.ag[f.grp] = 0 THEN R(w, Idle)
    ELSE LET g == w.ag[f.grp]
             w1 == [w EXCEPT !.games[g].join_phase_active = FALSE]
             num_joined == Len(w.games[g].players)
         IN R([w1 EXCEPT !.games[g].players =
                  IF num_joined > MAX_PLAYERS
                  THEN SubSeq(@, 1, MAX_PLAYERS) ELSE @],
              Fr(f.k, "ej_settled_msg", f.grp, g, 0, 0))

\* end_join_phase up to its message
EndJoinPhase(w, f) ==
    IF w.ag[f.grp] = 0 THEN R(w, Idle)
    ELSE LET g == w.ag[f.grp]
             w1 == [w EXCEPT !.games[g].join_phase_active = FALSE]
             num_joined == Len(w.games[g].players)
         IN IF num_joined < MIN_PLAYERS
            THEN R(w1, Fr(f.k, "ej_cancel_msg", f.grp, g, 0, 0))
            ELSE R([w1 EXCEPT !.games[g].players =
                        IF num_joined > MAX_PLAYERS
                        THEN SubSeq(@, 1, MAX_PLAYERS) ELSE @],
                   Fr(f.k, "ej_settled_msg", f.grp, g, 0, 0))

\* end_join_phase when the send_message of "Match Settled" raises: the
\* exception ends the coroutine before its call of start_round
EjSettledFails(w, f) == R(w, Idle)

\* ... the cancellation: the bindings of the players go, and
\* del active_games[group_id] (a KeyError when the group has no entry)
EjCancel(w, f) ==
    R([w EXCEPT !.uag = [u \in Users |->
                    IF u \in Members(w, f.g) THEN 0 ELSE @[u]],
                !.ag[f.grp] = 0],
      Idle)

\* join_phase_scheduler from its start to the wait for the join timer
JsStart(w, f) ==
    IF w.ag[f.grp] = 0 THEN R(w, Idle)
    ELSE R([w EXCEPT !.games[w.ag[f.grp]].join_timer_task = 1],
           Fr("sched", "js_wait", f.grp, w.ag[f.grp], 0, 0))

\* ... after the wait, ended by the expiry or by a cancel()
JsWake(w, f) ==
    LET w1 == IF w.games[f.g].join_timer_task = 1
              THEN [w EXCEPT !.games[f.g].join_timer_task = 2] ELSE w
    IN IF w1.ag[f.grp] # 0 THEN EndJoinPhase(w1, f) ELSE R(w1, Idle)

\* join up to its reply
Join(w, grp, u) ==
    IF w.uag[u] # 0 THEN [w |-> w, f |-> Idle, res |-> "AlreadyInMatch"]
    ELSE IF w.ag[grp] = 0 THEN [w |-> w, f |-> Idle, res |-> "NoGame"]
    ELSE LET g == w.ag[grp] IN
      IF ~w.games[g].join_phase_active
      THEN [w |-> w, f |-> Idle, res |-> "JoinPhaseClosed"]
      ELSE IF Len(w.games[g].players) >= MAX_PLAYERS
      THEN [w |-> w, f |-> Idle, res |-> "Full"]
      ELSE [w |-> AddPlayer(w, g, u),
            f |-> Fr("handler", "join_ack", grp, g, u, 0), res |-> "Joined"]

\* join without the start of the match when it is full
JoinFullWaits(w, f) == R(w, Idle)

\* ... start immediately when full, up to the "Starting immediately" message
JoinFull(w, f) ==
    IF Len(w.games[f.g].players) = MAX_PLAYERS
    THEN R([CancelJoinTimer(w, f.g) EXCEPT
               !.games[f.g].join_phase_active = FALSE],
           Fr("handler", "join_start_msg", f.grp, f.g, 0, 0))
    ELSE R(w, Idle)

\* leave without its "if not game.join_phase_active" check
LeaveAnyTime(w, grp, u) ==
    IF w.ag[grp] = 0 THEN [w |-> w, f |-> Idle, res |-> "NoGame"]
    ELSE LET g == w.ag[grp] IN
      IF u \notin Members(w, g)
      THEN [w |-> w, f |-> Idle, res |-> "NotInGame"]
      ELSE [w |-> RemovePlayer(w, g, u), f |-> Idle, res |-> "Left"]

\* leave
Leave(w, grp, u) ==
    IF w.ag[grp] = 0 THEN [w |-> w, f |-> Idle, res |-> "NoGame"]
    ELSE LET g == w.ag[grp] IN
      IF ~w.games[g].join_phase_active
      THEN [w |-> w, f |-> Idle, res |-> "JoinPhaseClosed"]
      ELSE IF u \notin Members(w, g)
      THEN [w |-> w, f |-> Idle, res |-> "NotInGame"]
      ELSE [w |-> RemovePlayer(w, g, u), f |-> Idle, res |-> "Left"]

\* forcestart, after the admin check, up to its message
ForceStart(w, grp) ==
    IF w.ag[grp] = 0 THEN [w |-> w, f |-> Idle, res |-> "NoGame"]
    ELSE LET g == w.ag[grp] IN
      IF ~w.games[g].join_phase_active
      THEN [w |-> w, f |-> Idle, res |-> "JoinPhaseClosed"]
      ELSE IF Len(w.games[g].players) < MIN_PLAYERS
      THEN [w |-> w, f |-> Idle, res |-> "NotEnoughPlayers"]
      ELSE [w |-> [CancelJoinTimer(w, g) EXCEPT
                      !.games[g].join_phase_active = FALSE],
            f |-> Fr("handler", "fs_msg", grp, g, 0, 0), res |-> "Forced"]

\* confirm_endmatch, after the admin check, up to its message
ConfirmEndmatch(w, grp) ==
    IF w.ag[grp] = 0 THEN [w |-> w, f |-> Idle, res |-> "NoGame"]
    ELSE LET g == w.ag[grp]
             w1 == Recorded(ClearPickTasks(CancelTimers(w, g, Users), g), g,
                            Members(w, g), 0)
         IN [w |-> [w1 EXCEPT
                      !.uag = [u \in Users |->
                          IF u \in Members(w, g) THEN 0 ELSE @[u]],
                      !.ag[grp] = 0],
             f |-> Idle, res |-> "Ended"]

\* ------------------------------------------------------------------ actions
Init ==
    /\ active_games = [grp \in Groups |-> 0]
    /\ user_active_game = [u \in Users |-> 0]
    /\ games = [g \in GameIds |-> BlankGame]
    /\ pl = [g \in GameIds |-> [u \in Users |-> BlankPlayer]]
    /\ rr = [g \in GameIds |-> BlankResult]
    /\ tasks = {}
    /\ sleepers = <<>>
    /\ handler = Idle

\* the program state a segment of frame f starts from
In(f) == IF f.k = "handler" THEN World ELSE [World EXCEPT !.tasks = @ \ {f}]

\* a game instance that nothing refers to any more: its fields are dropped,
\* and its identity is not given to a later match
Collected == [BlankGame EXCEPT !.group_id = -1, !.join_phase_active = FALSE]

\* the state after a segment: r is its result, inHandler tells whether it ran
\* in the update handler.  A game instance that was made and is in no
\* registry entry and in no frame is garbage.
Apply(inHandler, r) ==
    LET h == IF inHandler THEN r.f ELSE handler
        ts == IF inHandler \/ r.f.k = "idle" THEN r.w.tasks
              ELSE r.w.tasks \cup {r.f}
        live == {r.w.ag[grp] : grp \in Groups} \cup {x.g : x \in ts \cup {h}}
                    \cup {x.g : x \in Range(r.w.sl)}
    IN /\ active_games' = r.w.ag
       /\ user_active_game' = r.w.uag
       /\ games' = [g \in GameIds |->
              IF g \in live \/ r.w.games[g].group_id = 0 THEN r.w.games[g]
              ELSE Collected]
       /\ pl' = [g \in GameIds |->
              IF g \in live THEN r.w.pl[g] ELSE [u \in Users |-> BlankPlayer]]
       /\ rr' = [g \in GameIds |->
              IF g \in live THEN r.w.rr[g] ELSE BlankResult]
       /\ tasks' = ts
       /\ sleepers' = r.w.sl
       /\ handler' = h

\* a segment of a frame that is parked at pc, in the handler or in a task
Resume(f, r) == Apply(f.k = "handler", r)

Frames == tasks \cup {handler}

\* the tasks made by asyncio.create_task that have not started: the loop runs
\* them in its next iteration, before it takes an update, finishes an await
\* on the network or lets a sleep expire
Starting == {t \in tasks : t.pc \in {"js_new", "sr_new"}}

\* ... so every other step waits for them
NoneStarting == Starting = {}

\* the round counter is capped: start_round is not entered for a round after
\* maxRound
RoundBound(grp, maxRound) ==
    IF active_games[grp] = 0 THEN TRUE
    ELSE IF games[active_games[grp]].current_round_active THEN TRUE
    ELSE games[active_games[grp]].round_number < maxRound

\* the players of the match registered for a group
Joined(grp) ==
    IF active_games[grp] = 0 THEN {}
    ELSE Range(games[active_games[grp]].players)

\* users are alike, so they are numbered as they come: a user who can be
\* added to a match has a higher id than the players the match has
JoinOrder(grp, u) ==
    user_active_game[u] # 0 \/ \A v \in Joined(grp) : v < u

\* ... and, where matches follow one another, the next user to come in is the
\* one after the last, and the one to leave is the last that came
NextToJoin(grp, u) ==
    user_active_game[u] # 0 \/ u = Cardinality(Joined(grp)) + 1

LastJoined(grp, u) ==
    u \notin Joined(grp) \/ u = Cardinality(Joined(grp))

\* --- updates: the dispatcher hands the next update to its handler
\* the game instances that are registered or that a frame still refers to
Live == {g \in GameIds : games[g].group_id > 0}

\* a match is made while fewer than maxLive instances are live
UModeSelection(grp, maxLive) ==
    /\ NoneStarting
    /\ handler = Idle
    /\ \/ active_games[grp] # 0
       \/ FreeIds(World) # {} /\ Cardinality(Live) < maxLive
    /\ LET r == ModeSelection(World, grp) IN Apply(TRUE, r)

UJoin(grp, u) ==
    /\ NoneStarting
    /\ handler = Idle
    /\ LET r == Join(World, grp, u) IN Apply(TRUE, r)

ULeave(grp, u) ==
    /\ NoneStarting
    /\ handler = Idle
    /\ LET r == Leave(World, grp, u) IN Apply(TRUE, r)

UForceStart(grp) ==
    /\ NoneStarting
    /\ handler = Idle
    /\ LET r == ForceStart(World, grp) IN Apply(TRUE, r)

UConfirmEndmatch(grp) ==
    /\ NoneStarting
    /\ handler = Idle
    /\ LET r == ConfirmEndmatch(World, grp) IN Apply(TRUE, r)

UDmPick(u, text) ==
    /\ NoneStarting
    /\ handler = Idle
    /\ LET r == DmPick(World, u, text) IN Apply(TRUE, r)

\* --- the handler in flight resumes after an await
HMsSchedule ==
    /\ NoneStarting
    /\ handler.pc = "ms_edit"
    /\ Resume(handler, MsSchedule(World, handler))

HJoinFull ==
    /\ NoneStarting
    /\ handler.pc = "join_ack"
    /\ Resume(handler, JoinFull(World, handler))

HJoinStart(maxRound) ==
    /\ NoneStarting
    /\ handler.pc = "join_start_msg"
    /\ RoundBound(handler.grp, maxRound)
    /\ Resume(handler, StartRound(World, handler))

HForceStart ==
    /\ NoneStarting
    /\ handler.pc = "fs_msg"
    /\ Resume(handler, EndJoinPhase(World, handler))

HDmFinish ==
    /\ NoneStarting
    /\ handler.pc = "dm_ack"
    /\ Resume(handler, DmFinish(World, handler))

HDmAckFails ==
    /\ NoneStarting
    /\ handler.pc = "dm_ack"
    /\ Resume(handler, DmAckFails(World, handler))

\* --- tasks resume
TJsStart ==
    \E f \in tasks :
        /\ f.pc = "js_new"
        /\ Resume(f, JsStart(In(f), f))

TJsWake ==
    /\ NoneStarting
    /\ \E f \in tasks :
           /\ f.pc = "js_wait"
           /\ Resume(f, JsWake(In(f), f))

TSrNew(maxRound) ==
    \E f \in tasks :
        /\ f.pc = "sr_new"
        /\ RoundBound(f.grp, maxRound)
        /\ Resume(f, StartRound(In(f), f))

\* the timeout tasks that are past their sleep and have not returned
Parked == {t \in tasks : t.k = "timer"}

\* the timeout tasks all sleep PICK_TIME_SEC, so they wake in the order in
\* which they were made
TimerFires(maxParked) ==
    /\ NoneStarting
    /\ sleepers # <<>>
    /\ Cardinality(Parked) < maxParked
    /\ LET f == Head(sleepers)
           w == [World EXCEPT !.sl = Tail(@)]
       IN Resume(f, HandleMiss(w, f))

THmFinish ==
    /\ NoneStarting
    /\ \E f \in tasks :
           /\ f.pc = "hm_msg"
           /\ Resume(f, HmFinish(In(f), f))

\* --- segments of end_join_phase, start_round and process_round_results,
\* which run in the handler or in a task
EjCancelStep ==
    /\ NoneStarting
    /\ \E f \in Frames :
           /\ f.pc = "ej_cancel_msg"
           /\ Resume(f, EjCancel(In(f), f))

EjSettledStep(maxRound) ==
    /\ NoneStarting
    /\ \E f \in Frames :
           /\ f.pc = "ej_settled_msg"
           /\ RoundBound(f.grp, maxRound)
           /\ Resume(f, StartRound(In(f), f))

SrPlayersStep ==
    /\ NoneStarting
    /\ \E f \in Frames :
           /\ f.pc = "sr_announce"
           /\ Resume(f, SrPlayers(In(f), f))

SrArmStep ==
    /\ NoneStarting
    /\ \E f \in Frames :
           /\ f.pc = "sr_dm"
           /\ Resume(f, SrArm(In(f), f))

PrrNoPicksStep ==
    /\ NoneStarting
    /\ \E f \in Frames :
           /\ f.pc = "prr_nopicks"
           /\ Resume(f, PrrNoPicks(In(f), f))

PrrScoreStep ==
    /\ NoneStarting
    /\ \E f \in Frames :
           /\ f.pc = "prr_reveal"
           /\ Resume(f, PrrScore(In(f), f))

PrrFinishStep ==
    /\ NoneStarting
    /\ \E f \in Frames :
           /\ f.pc = "prr_results"
           /\ Resume(f, PrrFinish(In(f), f))

LobbyTexts == {0}

Next ==
    \/ TJsStart
    \/ TSrNew(MaxRoundSpec)
    \/ \E grp \in Groups : UModeSelection(grp, MaxLive)
    \/ \E grp \in Groups, u \in Users : NextToJoin(grp, u) /\ UJoin(grp, u)
    \/ \E grp \in Groups, u \in Users : LastJoined(grp, u) /\ ULeave(grp, u)
    \/ \E grp \in Groups : UForceStart(grp)
    \/ \E grp \in Groups : UConfirmEndmatch(grp)
    \/ \E u \in 1..NumTalkers, text \in LobbyTexts : UDmPick(u, text)
    \/ HMsSchedule
    \/ HJoinFull
    \/ HJoinStart(MaxRoundSpec)
    \/ HForceStart
    \/ HDmFinish
    \/ TJsWake
    \/ TimerFires(MaxParkedSpec)
    \/ THmFinish
    \/ EjCancelStep
    \/ EjSettledStep(MaxRoundSpec)
    \/ SrPlayersStep
    \/ SrArmStep
    \/ PrrNoPicksStep
    \/ PrrScoreStep
    \/ PrrFinishStep

Spec == Init /\ [][Next]_vars

\* --- the lobby: matches of several groups side by side, and a match made in
\* a group while tasks of the match before it are still alive.  The chats
\* have fewer users than a match needs, so every join phase ends in the
\* cancellation of the match.
NextLobby ==
    \/ TJsStart
    \/ \E grp \in Groups : UModeSelection(grp, MaxLiveLobby)
    \/ \E grp \in Groups : \E u \in InChat(grp) : JoinOrder(grp, u) /\ UJoin(grp, u)
    \/ \E grp \in Groups : \E u \in InChat(grp) : ULeave(grp, u)
    \/ \E grp \in Groups : UForceStart(grp)
    \/ \E grp \in Groups : UConfirmEndmatch(grp)
    \/ HMsSchedule
    \/ HJoinFull
    \/ TJsWake
    \/ EjCancelStep

SpecLobby == Init /\ [][NextLobby]_vars

\* --- round play.  A match of group 1 with players 1..MIN_PLAYERS has played
\* two rounds: players 1..Survivors sent 0 in both, the others missed both,
\* which cost them 1 point for the first miss and 1 point for not winning
\* round 1, and eliminated them in round 2.  process_round_results has made
\* the task that starts round 3.
Missed ==
    [BlankPlayer EXCEPT !.score = -2, !.total_penalties = 2,
                        !.timeout_count = 1, !.eliminated = TRUE]

InitRound ==
    /\ active_games = [grp \in Groups |-> IF grp = 1 THEN 1 ELSE 0]
    /\ user_active_game = [u \in Users |-> IF u <= MIN_PLAYERS THEN 1 ELSE 0]
    /\ games = [g \in GameIds |->
          IF g = 1
          THEN [BlankGame EXCEPT !.group_id = 1,
                                 !.players = [i \in 1..MIN_PLAYERS |-> i],
                                 !.join_phase_active = FALSE,
                                 !.join_timer_task = 2,
                                 !.round_number = PlayedRounds]
          ELSE BlankGame]
    /\ pl = [g \in GameIds |-> [u \in Users |->
          IF g = 1 /\ Survivors < u /\ u <= MIN_PLAYERS THEN Missed
          ELSE BlankPlayer]]
    /\ rr = [g \in GameIds |->
          IF g = 1
          THEN [BlankResult EXCEPT
                   !.calls =
                     [r \in 1..MaxRound |-> IF r <= PlayedRounds THEN 1 ELSE 0],
                   !.scored =
                     [r \in 1..MaxRound |-> IF r <= PlayedRounds THEN 1 ELSE 0]]
          ELSE BlankResult]
    /\ tasks = {Fr("sr", "sr_new", 1, 1, 0, PlayedRounds)}
    /\ sleepers = <<>>
    /\ handler = Idle

NextRound ==
    \/ TSrNew(LastRound)
    \/ \E u \in Users, text \in Texts : UDmPick(u, text)
    \/ HDmFinish
    \/ TimerFires(MaxParked)
    \/ THmFinish
    \/ SrPlayersStep
    \/ SrArmStep
    \/ PrrNoPicksStep
    \/ PrrScoreStep
    \/ PrrFinishStep

SpecRound == InitRound /\ [][NextRound]_vars

\* --- round play in which the acknowledgement of a pick can fail
NextDelivery ==
    \/ TSrNew(LastRound)
    \/ \E u \in Users, text \in Texts : UDmPick(u, text)
    \/ HDmFinish
    \/ HDmAckFails
    \/ TimerFires(MaxParked)
    \/ THmFinish
    \/ SrPlayersStep
    \/ SrArmStep
    \/ PrrNoPicksStep
    \/ PrrScoreStep
    \/ PrrFinishStep

SpecDelivery == InitRound /\ [][NextDelivery]_vars

\* ... after "No valid picks received this round.", when the statistics sink
\* raises for one player of the match
PrrNoPicksSinkFailsStep ==
    /\ NoneStarting
    /\ \E f \in Frames :
           /\ f.pc = "prr_nopicks"
           /\ \E u \in Members(World, f.g) :
                  Resume(f, R(EndGameSinkFails(In(f), f.grp, {u}), Idle))

\* --- round play in which the statistics sink can fail for a player
NextSink ==
    \/ TSrNew(LastRound)
    \/ \E u \in Users, text \in Texts : UDmPick(u, text)
    \/ HDmFinish
    \/ TimerFires(MaxParked)
    \/ THmFinish
    \/ SrPlayersStep
    \/ SrArmStep
    \/ PrrNoPicksStep
    \/ PrrNoPicksSinkFailsStep
    \/ PrrScoreStep
    \/ PrrFinishStep

SpecSink == InitRound /\ [][NextSink]_vars

\* --- scoring.  A match of group 1 with players 1..MIN_PLAYERS is in round
\* MaxRound - 1, and the round is complete: every player has sent a number,
\* has been marked Skipped by the timeout, or was eliminated by a second
\* timeout.  The last player to send a number is in the handler, after the
\* acknowledgement; when nobody sent one, the last timeout task is after its
\* message.  The first LowScorers players may be one point from elimination.
ScorePicks == {0, 40, 51, 60, 100}

ScoreValues(u) == IF u <= LowScorers THEN {-3, -9} ELSE {-3}

Profiles(u) ==
    {[BlankPlayer EXCEPT !.score = -3, !.total_penalties = 3,
                         !.timeout_count = 1, !.eliminated = TRUE]}
    \cup {[BlankPlayer EXCEPT !.score = sc, !.total_penalties = -sc,
                              !.timeout_count = 1, !.current_number = SKIPPED]
              : sc \in {x - 1 : x \in ScoreValues(u)}}
    \cup {[BlankPlayer EXCEPT !.score = sc, !.total_penalties = -sc,
                              !.current_number = x]
              : sc \in ScoreValues(u), x \in ScorePicks}

AllProfiles == UNION {Profiles(u) : u \in 1..MIN_PLAYERS}

InitScore ==
    \E dup \in BOOLEAN, ps \in [1..MIN_PLAYERS -> AllProfiles] :
        LET sent == {u \in 1..MIN_PLAYERS : IsNumber(ps[u].current_number)}
            last == IF sent # {} THEN CHOOSE u \in sent : \A v \in sent : v <= u
                    ELSE MIN_PLAYERS
        IN
        /\ \A u \in 1..MIN_PLAYERS : ps[u] \in Profiles(u)
        /\ active_games = [grp \in Groups |-> IF grp = 1 THEN 1 ELSE 0]
        /\ user_active_game = [u \in Users |-> IF u <= MIN_PLAYERS THEN 1 ELSE 0]
        /\ games = [g \in GameIds |->
              IF g = 1
              THEN [BlankGame EXCEPT !.group_id = 1,
                                     !.players = [i \in 1..MIN_PLAYERS |-> i],
                                     !.join_phase_active = FALSE,
                                     !.join_timer_task = 2,
                                     !.round_number = MaxRound - 1,
                                     !.current_round_active = TRUE,
                                     !.duplicate_rule_active = dup,
                                     !.pick_tasks = [u \in Users |->
                                         IF u = last THEN MaxRound - 1 ELSE 0]]
              ELSE BlankGame]
        /\ pl = [g \in GameIds |-> [u \in Users |->
              IF g = 1 /\ u <= MIN_PLAYERS THEN ps[u] ELSE BlankPlayer]]
        /\ rr = [g \in GameIds |->
              IF g = 1
              THEN [BlankResult EXCEPT
                       !.calls = [r \in 1..MaxRound |->
                                     IF r < MaxRound - 1 THEN 1 ELSE 0],
                       !.scored = [r \in 1..MaxRound |->
                                     IF r < MaxRound - 1 THEN 1 ELSE 0]]
              ELSE BlankResult]
        /\ sleepers = <<>>
        /\ tasks = IF sent # {} THEN {}
                   ELSE {Fr("timer", "hm_msg", 1, 1, last, MaxRound - 1)}
        /\ handler = IF sent # {} THEN Fr("handler", "dm_ack", 1, 1, last, 0)
                     ELSE Idle

NextScore ==
    \/ TSrNew(MaxRound)
    \/ HDmFinish
    \/ THmFinish
    \/ PrrNoPicksStep
    \/ PrrScoreStep
    \/ PrrFinishStep

SpecScore == InitScore /\ [][NextScore]_vars

\* --- one match after another in one group: a match is made in the group
\* while tasks of the match before it, ended by an admin, are still alive
MaxLiveSettle == 2

MatchesSettle == 2

\* the matches made so far are fewer than most
FewerMade(most) ==
    \A g \in GameIds : g >= most => games[g].group_id = 0

NextSettle ==
    \/ TJsStart
    \/ FewerMade(MatchesSettle) /\ UModeSelection(1, MaxLiveSettle)
    \/ \E u \in 1..MIN_PLAYERS : NextToJoin(1, u) /\ UJoin(1, u)
    \/ \E u \in 1..MIN_PLAYERS : LastJoined(1, u) /\ ULeave(1, u)
    \/ UForceStart(1)
    \/ UConfirmEndmatch(1)
    \/ HMsSchedule
    \/ HJoinFull
    \/ HForceStart
    \/ TJsWake
    \/ EjCancelStep
    \/ EjSettledStep(MaxRoundSpec)
    \/ SrPlayersStep
    \/ SrArmStep

SpecSettle == Init /\ [][NextSettle]_vars

EjSettledFailsStep ==
    /\ NoneStarting
    /\ \E f \in Frames :
           /\ f.pc = "ej_settled_msg"
           /\ Resume(f, EjSettledFails(In(f), f))

\* --- the lobby of group 1 in which the "Match Settled" message can fail
NextNotice ==
    \/ TJsStart
    \/ FewerMade(MatchesSettle) /\ UModeSelection(1, MaxLiveSettle)
    \/ \E u \in 1..MIN_PLAYERS : NextToJoin(1, u) /\ UJoin(1, u)
    \/ \E u \in 1..MIN_PLAYERS : LastJoined(1, u) /\ ULeave(1, u)
    \/ UForceStart(1)
    \/ UConfirmEndmatch(1)
    \/ HMsSchedule
    \/ HJoinFull
    \/ HForceStart
    \/ TJsWake
    \/ EjCancelStep
    \/ EjSettledStep(MaxRoundSpec)
    \/ EjSettledFailsStep
    \/ SrPlayersStep
    \/ SrArmStep

SpecNotice == Init /\ [][NextNotice]_vars

\* ------------------------------------------------------------------ claims
\* the matches in the registry that have user u among their players
MatchesOf(u) == {grp \in Groups : u \in Joined(grp)}

\* C1: there is at most one match per group: the registry holds one match for
\* a group, made for that group, and mode_selection for a group that has a
\* match answers AlreadyActive and changes nothing: the match, its players and
\* its phase stay as they are, and no task is made.
C1_OneMatchPerGroup ==
    \A grp \in Groups :
        active_games[grp] # 0 =>
            /\ games[active_games[grp]].group_id = grp
            /\ \A other \in Groups \ {grp} :
                   active_games[other] # active_games[grp]
            /\ ModeSelection(World, grp) =
                   [w |-> World, f |-> Idle, res |-> "AlreadyActive"]

\* C1, its case: a match with players in its join phase, and one in a round,
\* when the next update can be a start of a game
C1_Witness ==
    /\ handler = Idle
    /\ \E grp \in Groups :
          /\ active_games[grp] # 0
          /\ Len(games[active_games[grp]].players) >= 2
          /\ games[active_games[grp]].join_phase_active

\* C2: a user id is in user_active_game if and only if the user is a player
\* of the match that active_games holds for that group.
C2_BindingMatchesPlayers ==
    \A u \in Users, grp \in Groups :
        user_active_game[u] = grp <=> u \in Joined(grp)

\* C3: no user is a player of two matches of the registry at the same time,
\* and a join by a user who is bound to a group answers AlreadyInMatch and
\* changes nothing.
C3_OneMatchPerUser ==
    \A u \in Users :
        /\ Cardinality(MatchesOf(u)) <= 1
        /\ user_active_game[u] # 0 =>
              \A grp \in Groups :
                  Join(World, grp, u) =
                      [w |-> World, f |-> Idle, res |-> "AlreadyInMatch"]

\* the match and the player entry of a user who is bound to a group that
\* has a match
MatchOf(u) ==
    IF user_active_game[u] = 0 THEN 0 ELSE active_games[user_active_game[u]]

\* what a player's timeout task would do if it woke now
MissNow(g, u) ==
    HandleMiss(World, Fr("timer", "sleep", games[g].group_id, g, u,
                         games[g].round_number))

\* C4: at most one pick of a player is accepted in a round: while a number is
\* recorded for a player, every further number the player sends is rejected
\* (AlreadyPicked while the round is open) and changes nothing, and no step
\* replaces a recorded number by another number.
C4_OnePickPerRound ==
    [][\A u \in Users :
          LET g == MatchOf(u) IN
          (g # 0 /\ IsNumber(pl[g][u].current_number)) =>
              /\ \A text \in PickValues :
                    LET r == DmPick(World, u, text)
                    IN /\ r.w = World /\ r.f = Idle
                       /\ (games[g].current_round_active /\ ~pl[g][u].eliminated)
                             => r.res = "AlreadyPicked"
              /\ pl'[g][u].current_number \in {pl[g][u].current_number, NONE}
      ]_vars

\* C4, its case: a player has a number recorded in an open round and the
\* next update can be another number of that player
C4_Witness ==
    /\ handler = Idle
    /\ \E u \in Users :
          /\ MatchOf(u) # 0
          /\ games[MatchOf(u)].current_round_active
          /\ ~games[MatchOf(u)].round_results_sent
          /\ pl[MatchOf(u)][u].current_number = 100

\* the answers of dm_pick_handler that reject a message
Rejections ==
    {"NoActiveRound", "AlreadyEliminated", "AlreadyPicked", "OutOfRange",
     "NotANumber"}

\* C5: a rejected pick (no active round, user eliminated, number already
\* recorded, number out of range, text not a number) leaves the picks,
\* scores, eliminated flags, round flags and pending timers unchanged.
C5_RejectedPickChangesNothing ==
    \A u \in Users, text \in Texts :
        LET r == DmPick(World, u, text)
        IN (MatchOf(u) # 0 /\ r.res # "Accepted") =>
              /\ r.res \in Rejections \cup {"NotListed"}
              /\ r.w = World /\ r.f = Idle

\* C5, its case: an open round in which one player has a number recorded,
\* another is eliminated and timers are pending
C5_Witness ==
    /\ handler = Idle /\ sleepers # <<>>
    /\ \E u, v \in Users :
          /\ MatchOf(u) # 0 /\ MatchOf(v) = MatchOf(u)
          /\ games[MatchOf(u)].current_round_active
          /\ IsNumber(pl[MatchOf(u)][u].current_number)
          /\ pl[MatchOf(u)][v].eliminated

\* C6: of a player's pick and the player's timeout in a round exactly one
\* takes effect: with a number recorded the timeout changes nothing, and with
\* the miss applied (marked Skipped, or eliminated) a number the player sends
\* is rejected and changes nothing.
C6_PickOrMissNotBoth ==
    \A u \in Users :
        LET g == MatchOf(u) IN
        (g # 0 /\ u \in Members(World, g)) =>
            /\ IsNumber(pl[g][u].current_number) => MissNow(g, u).w = World
            /\ (pl[g][u].current_number = SKIPPED \/ pl[g][u].eliminated) =>
                  \A text \in PickValues :
                      /\ DmPick(World, u, text).res # "Accepted"
                      /\ DmPick(World, u, text).w = World

\* C6, its case: a number is recorded for a player whose timeout task is
\* still asleep
C6_Witness ==
    \E i \in 1..Len(sleepers) :
        /\ active_games[sleepers[i].grp] = sleepers[i].g
        /\ IsNumber(pl[sleepers[i].g][sleepers[i].u].current_number)

\* C7: the rule pipeline runs at most once for each round number of a match.
C7_ScoredOncePerRound ==
    \A g \in GameIds, r \in 1..MaxRound : rr[g].scored[r] <= 1

\* C7, its case: process_round_results was entered twice for a round, and
\* the round was scored
C7_Witness ==
    \E g \in GameIds, r \in 1..MaxRound :
        r > PlayedRounds /\ rr[g].calls[r] = 2 /\ rr[g].scored[r] = 1

\* C8: process_round_results entered again for a round that has been resolved
\* does nothing: no resolution is past the round_results_sent check for a
\* round number whose results have been sent.
C8_SecondResolutionIsNoOp ==
    \A f \in Frames :
        f.pc \in {"prr_nopicks", "prr_reveal"} =>
            \A r \in 1..MaxRound :
                r = games[f.g].round_number => rr[f.g].scored[r] = 0

\* C8, its case: process_round_results was entered a second time for a round
\* whose scores have been applied and whose results are still being sent
C8_Witness ==
    \E f \in Frames :
        /\ f.pc = "prr_results"
        /\ rr[f.g].calls[games[f.g].round_number] = 2
        /\ rr[f.g].scored[games[f.g].round_number] = 1

\* --- a resolution whose scores have been applied and whose result message
\* is on its way: the players before it, as process_round_results found them
Resolving == {f.g : f \in {x \in Frames : x.pc = "prr_results"}}

ActiveBefore(g) == {u \in Members(World, g) : ~rr[g].pre[u].eliminated}

NumberBefore(g, u) == rr[g].pre[u].current_number

NumericBefore(g) == {u \in ActiveBefore(g) : NumberBefore(g, u) \in 0..100}

SumBefore(g) == SumOver([u \in Users |-> NumberBefore(g, u)], NumericBefore(g))

\* the points the resolution took from a player
Lost(g, u) == rr[g].pre[u].score - pl[g][u].score

\* the players that sent the same number as u
SameNumber(g, u) ==
    {v \in NumericBefore(g) : NumberBefore(g, v) = NumberBefore(g, u)}

\* |number - target|, times 5n, for target = 4 * sum / (5 * n)
Distance(g, u) ==
    Abs(5 * Cardinality(NumericBefore(g)) * NumberBefore(g, u) - 4 * SumBefore(g))

Nearest(g) ==
    {u \in NumericBefore(g) :
        \A v \in NumericBefore(g) : Distance(g, u) <= Distance(g, v)}

ZeroHundredBefore(g) ==
    /\ Cardinality(ActiveBefore(g)) = 2
    /\ {NumberBefore(g, u) : u \in ActiveBefore(g)} = {0, 100}

DuplicateRuleApplies(g) ==
    /\ games[g].duplicate_rule_active
    /\ Cardinality(ActiveBefore(g)) > 2
    /\ \E u \in NumericBefore(g) : Cardinality(SameNumber(g, u)) >= 4

\* the players whose number is the target rounded to the nearest integer:
\* the number is less than one half away from the target
OnTarget(g) ==
    {u \in NumericBefore(g) :
        2 * Distance(g, u) < 5 * Cardinality(NumericBefore(g))}

ExactTargetApplies(g) ==
    /\ Cardinality({u \in Members(World, g) : rr[g].pre[u].eliminated}) >= 2
    /\ ~ZeroHundredBefore(g)
    /\ ~DuplicateRuleApplies(g)
    /\ OnTarget(g) # {}

\* C9: the target of a resolved round is 0.8 times the mean of the numbers of
\* the players that are not eliminated: 5 * n * target = 4 * sum; players
\* marked Skipped and eliminated players are not counted.
C9_TargetIsFourFifthsOfMean ==
    \A g \in Resolving :
        /\ NumericBefore(g) # {}
        /\ rr[g].tden > 0
        /\ 5 * Cardinality(NumericBefore(g)) * rr[g].tnum
               = 4 * SumBefore(g) * rr[g].tden

\* C9, its case: a round resolved with different numbers, a player marked
\* Skipped and a player eliminated
C9_Witness ==
    \E g \in Resolving :
        /\ \E u, v \in NumericBefore(g) : NumberBefore(g, u) # NumberBefore(g, v)
        /\ \E u \in ActiveBefore(g) : NumberBefore(g, u) = SKIPPED
        /\ ActiveBefore(g) # Members(World, g)

\* C10: where neither the 0 vs 100 case nor the exact-target bonus applies,
\* the winners are the players not eliminated whose number is nearest to the
\* target: there is one at least, all that tie win, and no player who missed
\* or is eliminated wins.
C10_WinnersAreNearest ==
    \A g \in Resolving :
        (~ZeroHundredBefore(g) /\ ~ExactTargetApplies(g)) =>
            /\ rr[g].winners = Nearest(g)
            /\ rr[g].winners # {}
            /\ rr[g].winners \subseteq NumericBefore(g)

\* C10, its case: two players tie for the nearest number, a third is further
\* away and a fourth missed
C10_Witness ==
    \E g \in Resolving :
        /\ ~ZeroHundredBefore(g) /\ ~ExactTargetApplies(g)
        /\ Cardinality(Nearest(g)) = 2
        /\ NumericBefore(g) \ Nearest(g) # {}
        /\ ActiveBefore(g) \ NumericBefore(g) # {}

\* C11: with the duplicate rule active and more than 2 players active, every
\* player whose number was sent by 4 players or more loses exactly 1 point in
\* the resolution; with the rule not active, 4 players sharing a number are
\* scored like any other player: nothing for a winner, 1 point otherwise.
C11_DuplicatePenalty ==
    \A g \in Resolving : \A u \in NumericBefore(g) :
        Cardinality(SameNumber(g, u)) >= 4 =>
            IF games[g].duplicate_rule_active /\ Cardinality(ActiveBefore(g)) > 2
            THEN Lost(g, u) = 1
            ELSE Lost(g, u) = IF u \in Nearest(g) THEN 0 ELSE 1

\* C11, its case: the rule is active, four players sent the number nearest to
\* the target and lose a point for it
C11_Witness ==
    \E g \in Resolving : \E u \in Nearest(g) :
        /\ games[g].duplicate_rule_active
        /\ Cardinality(SameNumber(g, u)) = 4
        /\ Lost(g, u) = 1

\* C12: with two players not eliminated, one with 0 and one with 100, the
\* player with 100 is the only winner, the player with 0 loses exactly 1
\* point and the player with 100 loses none.
C12_ZeroVersusHundred ==
    \A g \in Resolving :
        ZeroHundredBefore(g) =>
            \A u \in ActiveBefore(g) :
                IF NumberBefore(g, u) = 100
                THEN rr[g].winners = {u} /\ Lost(g, u) = 0
                ELSE Lost(g, u) = 1

\* C12, its case: 0 against 100, where 0 is nearer to the target of 40
C12_Witness ==
    \E g \in Resolving :
        /\ ZeroHundredBefore(g)
        /\ \E u \in Nearest(g) : NumberBefore(g, u) = 0

\* C13: with two players or more eliminated before the round, no 0 vs 100
\* case, no duplicate penalty and a number equal to the rounded target, the
\* winners are the players with that number and every other active player
\* loses exactly 2 points in the resolution.
C13_ExactTargetBonus ==
    \A g \in Resolving :
        ExactTargetApplies(g) =>
            /\ rr[g].winners = OnTarget(g)
            /\ \A u \in ActiveBefore(g) :
                   Lost(g, u) = IF u \in OnTarget(g) THEN 0 ELSE 2

\* C13, its case: the target is not an integer, a player sent the integer
\* nearest to it, and two others sent other numbers
C13_Witness ==
    \E g \in Resolving :
        /\ ExactTargetApplies(g)
        /\ \E u \in OnTarget(g) : Distance(g, u) > 0
        /\ Cardinality(NumericBefore(g) \ OnTarget(g)) = 2

\* C14: a player whose score is -10 or lower after the penalties of a round is
\* eliminated in that resolution, and when a round starts every player that
\* is not eliminated has a score of -9 or higher.
C14_EliminatedAtMinusTen ==
    \A f \in Frames :
        f.pc \in {"prr_results", "sr_announce"} =>
            \A u \in Members(World, f.g) :
                pl[f.g][u].score <= -10 => pl[f.g][u].eliminated

\* C14, its case: a round starts after a resolution that took a player to -10
\* or lower and eliminated the player
C14_Witness ==
    \E f \in Frames :
        /\ f.pc = "sr_announce"
        /\ \E u \in Members(World, f.g) :
              pl[f.g][u].score <= -10 /\ pl[f.g][u].timeout_count = 0

\* C15: the timeout of a player who missed before eliminates the player and
\* leaves the score as it is, and the resolution of the round takes no point
\* from a player who was eliminated before it.
C15_SecondMissEliminates ==
    /\ \A grp \in Groups : \A u \in Joined(grp) :
          LET g == active_games[grp] IN
          (/\ ~pl[g][u].eliminated
           /\ pl[g][u].current_number = NONE
           /\ pl[g][u].timeout_count >= 1) =>
              MissNow(g, u).w = [World EXCEPT !.pl[g][u].eliminated = TRUE]
    /\ \A g \in Resolving : \A u \in Members(World, g) :
          rr[g].pre[u].eliminated => Lost(g, u) = 0

\* C15, its case: a player who missed the round before is eliminated by the
\* timeout of this round, and the round is resolved with the number of the
\* other player
C15_Witness ==
    \E g \in Resolving : \E u \in 1..Survivors :
        /\ games[g].round_number = PlayedRounds + 2
        /\ rr[g].pre[u].eliminated
        /\ rr[g].pre[u].timeout_count = 1
        /\ rr[g].pre[u].current_number = NONE

\* the last timeout of a round in which nobody sent a number: handle_miss is
\* past its message, no resolution is under way, and every player that is not
\* eliminated is marked Skipped
LastTimeouts ==
    {f \in tasks :
        /\ f.pc = "hm_msg"
        /\ active_games[f.grp] = f.g
        /\ ~games[f.g].round_results_sent
        /\ \A u \in ActiveSet(World, f.g) : pl[f.g][u].current_number = SKIPPED}

\* C16: a round that ends with no number at all finalizes the match at once:
\* from the last timeout on, process_round_results goes to its "No valid
\* picks" message and from there to end_game, which removes the match; the
\* rule pipeline is not run, and no score and no eliminated flag changes.
C16_NoPicksEndsMatch ==
    /\ \A f \in LastTimeouts :
          LET r == HmFinish(In(f), f) IN
          /\ r.f.pc = "prr_nopicks"
          /\ r.w.pl = pl
          /\ r.w.rr[f.g].scored = rr[f.g].scored
          /\ r.w.ag = active_games
    /\ \A f \in Frames :
          f.pc = "prr_nopicks" =>
              LET r == PrrNoPicks(In(f), f) IN
              /\ r.f = Idle
              /\ r.w.ag[f.grp] = 0
              /\ r.w.pl = pl
              /\ r.w.rr[f.g].scored = rr[f.g].scored
              /\ \A x \in 1..MaxRound :
                    x = games[f.g].round_number => rr[f.g].scored[x] = 0

\* C16, its case: two players are marked Skipped, the others are eliminated,
\* and process_round_results is at its "No valid picks" message
C16_Witness ==
    \E f \in Frames :
        /\ f.pc = "prr_nopicks"
        /\ active_games[f.grp] = f.g
        /\ Cardinality(ActiveSet(World, f.g)) = 2
        /\ \A u \in ActiveSet(World, f.g) : pl[f.g][u].current_number = SKIPPED

\* the timeout tasks of a match that are asleep
Sleeping(w, g) == {i \in 1..Len(w.sl) : w.sl[i].g = g}

\* C17: a resolution that leaves one player or none finalizes the match: its
\* last step removes the match from the registry, releases the bindings of
\* its players, leaves no timeout task of the match asleep and makes no task
\* for another round; and a match that has ended with one player or none has
\* no timeout task asleep and no round to start.
C17_LastPlayerEndsMatch ==
    /\ \A f \in Frames :
          (f.pc = "prr_results" /\ active_games[f.grp] = f.g
              /\ Cardinality(ActiveSet(World, f.g)) <= 1) =>
              LET r == PrrFinish(In(f), f) IN
              /\ r.f = Idle
              /\ r.w.ag[f.grp] = 0
              /\ \A u \in Members(World, f.g) : r.w.uag[u] = 0
              /\ Sleeping(r.w, f.g) = {}
              /\ r.w.tasks \subseteq tasks
    /\ \A g \in GameIds :
          (games[g].ended /\ Cardinality(ActiveSet(World, g)) <= 1) =>
              /\ \A grp \in Groups : active_games[grp] # g
              /\ Sleeping(World, g) = {}
              /\ \A f \in tasks : f.g = g => f.pc # "sr_new"

\* C18: the statistics of a match are written once: no player gets a second
\* record, at most one record says won, a match in the registry has no record
\* yet, end_game gives each of its players one record, and end_game or
\* confirm_endmatch called after end_game changes nothing.
C18_StatsRecordedOnce ==
    /\ \A g \in GameIds :
          /\ \A u \in Users : rr[g].stats[u] <= 1 /\ rr[g].won[u] <= rr[g].stats[u]
          /\ Cardinality({u \in Users : rr[g].won[u] > 0}) <= 1
    /\ \A grp \in Groups :
          active_games[grp] # 0 =>
              LET g == active_games[grp]
                  w1 == EndGame(World, grp)
              IN /\ \A u \in Users : rr[g].stats[u] = 0
                 /\ \A u \in Users :
                       w1.rr[g].stats[u] = IF u \in Joined(grp) THEN 1 ELSE 0
                 /\ Cardinality({u \in Users : w1.rr[g].won[u] > 0}) <= 1
                 /\ w1.ag[grp] = 0
                 /\ EndGame(w1, grp) = w1
                 /\ ConfirmEndmatch(w1, grp).w = w1

\* C18, its case: a match has ended with a record for each of its five
\* players, one of them as the winner, while a task of the match is alive
C18_Witness ==
    \E g \in GameIds :
        /\ games[g].ended
        /\ Cardinality({u \in Users : rr[g].stats[u] = 1}) = MIN_PLAYERS
        /\ Cardinality({u \in Users : rr[g].won[u] = 1}) = 1
        /\ \E f \in tasks : f.g = g

\* the place of a player in the order of joining
JoinedAt(g, u) == CHOOSE i \in 1..Len(games[g].players) : games[g].players[i] = u

\* the players the champion is taken from: those not eliminated, or all of
\* them when all are eliminated
Contenders(g) ==
    IF ActiveSet(World, g) # {} THEN ActiveSet(World, g) ELSE Members(World, g)

\* C19: the champion end_game names is the player with the highest score
\* among those not eliminated, or among all players when all are eliminated,
\* and of the players with that score the one who joined first.
C19_ChampionIsBest ==
    \A grp \in Groups :
        (active_games[grp] # 0 /\ Joined(grp) # {}) =>
            LET g == active_games[grp]
                c == EndGame(World, grp).rr[g].champion
            IN /\ c \in Contenders(g)
               /\ \A v \in Contenders(g) :
                     \/ pl[g][v].score < pl[g][c].score
                     \/ /\ pl[g][v].score = pl[g][c].score
                        /\ JoinedAt(g, c) <= JoinedAt(g, v)

\* C19, its case: the match is about to end with two players not eliminated
\* that have the same score, and an eliminated player with a higher score
C19_Witness ==
    \E f \in Frames :
        /\ f.pc = "prr_nopicks"
        /\ active_games[f.grp] = f.g
        /\ \E u, v \in ActiveSet(World, f.g) :
              /\ u # v
              /\ pl[f.g][u].score = pl[f.g][v].score
              /\ \A x \in ActiveSet(World, f.g) : pl[f.g][x].score <= pl[f.g][u].score
        /\ \E e \in Members(World, f.g) \ ActiveSet(World, f.g) :
              \A x \in ActiveSet(World, f.g) : pl[f.g][x].score < pl[f.g][e].score

\* C20: the join phase of a match is settled once: when the join-phase flag
\* of a registered match has been cleared by one of forcestart, the join that
\* fills the match and the expiry of the join timer, an attempt of another
\* one does nothing: forcestart answers that the join phase is closed, and
\* the scheduler that wakes up returns without a message and without a call
\* of start_round.
C20_SettledOnce ==
    \A grp \in Groups :
        (active_games[grp] # 0 /\ ~games[active_games[grp]].join_phase_active) =>
            /\ ForceStart(World, grp) =
                   [w |-> World, f |-> Idle, res |-> "JoinPhaseClosed"]
            /\ \A f \in tasks :
                   (f.pc = "js_wait" /\ f.g = active_games[grp]) =>
                       JsWake(In(f), f).f = Idle

\* the join in flight that has filled its match, the join timer still running
FillingJoin ==
    /\ handler.pc = "join_ack"
    /\ active_games[handler.grp] = handler.g
    /\ Len(games[handler.g].players) = MAX_PLAYERS
    /\ games[handler.g].join_phase_active

\* C21: the join that brings a match to MAX_PLAYERS players closes the join
\* phase and goes on to start_round itself: it cancels the join timer that is
\* running, clears the join-phase flag and, after its message, calls
\* start_round, which leaves the match in a round; and a join for a match
\* that has MAX_PLAYERS players is refused and changes nothing.
C21_FullMatchStartsAtOnce ==
    /\ FillingJoin =>
          LET r == JoinFull(World, handler) IN
          /\ r.f.pc = "join_start_msg"
          /\ ~r.w.games[handler.g].join_phase_active
          /\ r.w.games[handler.g].join_timer_task # 1
    /\ (handler.pc = "join_start_msg" /\ active_games[handler.grp] = handler.g) =>
          LET r == StartRound(World, handler) IN
          /\ r.w.games[handler.g].current_round_active
          /\ r.w.games[handler.g].round_number >= 1
    /\ \A grp \in Groups, u \in Users :
          (/\ active_games[grp] # 0
           /\ Len(games[active_games[grp]].players) >= MAX_PLAYERS
           /\ user_active_game[u] = 0) =>
              /\ Join(World, grp, u).res \in {"Full", "JoinPhaseClosed"}
              /\ Join(World, grp, u).w = World

\* C21, its case: the join that filled the match has started round 1 while
\* the scheduler of the join phase is still at its wait, the timer cancelled
C21_Witness ==
    /\ handler.pc = "sr_announce"
    /\ games[handler.g].round_number = 1
    /\ Len(games[handler.g].players) = MAX_PLAYERS
    /\ games[handler.g].join_timer_task = 0
    /\ \E f \in tasks : f.pc = "js_wait" /\ f.g = handler.g

\* an operation of the lobby that was refused: nothing changed, and the
\* handler has returned
Refused(r, answers) == r.res \in answers /\ r.w = World /\ r.f = Idle

\* C22: a lobby operation that is refused changes nothing.  A join for a
\* group without a match, for a match whose join phase is closed or for a
\* match that has MAX_PLAYERS players, a leave when the join phase is closed,
\* and a forcestart when the join phase is closed or fewer than MIN_PLAYERS
\* players have joined are refused, and the players, the bindings, the
\* join-phase flag and the round counter stay as they are.
C22_RefusedLobbyOperation ==
    \A grp \in Groups :
        LET g == active_games[grp] IN
        /\ g = 0 =>
              \A u \in Users :
                  Refused(Join(World, grp, u), {"NoGame", "AlreadyInMatch"})
        /\ (g # 0 /\ ~games[g].join_phase_active) =>
              /\ \A u \in Users :
                    /\ Refused(Join(World, grp, u),
                               {"JoinPhaseClosed", "AlreadyInMatch"})
                    /\ Refused(Leave(World, grp, u), {"JoinPhaseClosed"})
              /\ Refused(ForceStart(World, grp), {"JoinPhaseClosed"})
        /\ (g # 0 /\ Len(games[g].players) >= MAX_PLAYERS) =>
              \A u \in Users :
                  Refused(Join(World, grp, u),
                          {"Full", "JoinPhaseClosed", "AlreadyInMatch"})
        /\ (g # 0 /\ games[g].join_phase_active
                /\ Len(games[g].players) < MIN_PLAYERS) =>
              Refused(ForceStart(World, grp), {"NotEnoughPlayers"})

\* C22, its case: the next update can be a join, a leave or a forcestart for
\* a match that is in round 1 with its players bound to it, while the other
\* group has no match
C22_Witness ==
    /\ handler = Idle /\ NoneStarting
    /\ \E grp, other \in Groups :
          /\ active_games[other] = 0
          /\ active_games[grp] # 0
          /\ ~games[active_games[grp]].join_phase_active
          /\ games[active_games[grp]].current_round_active
          /\ \E u \in Joined(grp) : user_active_game[u] = grp
          /\ \E u \in Users : user_active_game[u] = 0

\* the frames whose next step is a call of start_round
AtStartRound ==
    {f \in Frames : f.pc \in {"ej_settled_msg", "join_start_msg", "sr_new"}}

Started == {g \in GameIds : games[g].round_number >= 1}

\* C24: every match in which a round has started has at least MIN_PLAYERS and
\* at most MAX_PLAYERS players.
C24_RoundHasFiveToSeven ==
    \A g \in Started :
        /\ Len(games[g].players) >= MIN_PLAYERS
        /\ Len(games[g].players) <= MAX_PLAYERS

\* the timeout task that wakes next, when it was made by the start_round of
\* a round before the one its match is in now
StaleTimers ==
    IF sleepers = <<>> \/ ~NoneStarting THEN {}
    ELSE {t \in {Head(sleepers)} :
             /\ active_games[t.grp] = t.g
             /\ t.n < games[t.g].round_number}

\* C25: a timeout task made for a round has no effect when it wakes in a
\* later round of its match: it takes no point, marks no player Skipped and
\* eliminates no player.
C25_StaleTimerIsNoOp ==
    \A t \in StaleTimers :
        HandleMiss([World EXCEPT !.sl = Tail(@)], t).w.pl = pl

\* the matches in an open round whose start_round has armed its timers: the
\* round is active, its results are not being worked out, and the loop of
\* start_round for this round has come to its end
RoundOpen ==
    {g \in GameIds :
        /\ \E grp \in Groups : active_games[grp] = g
        /\ games[g].current_round_active
        /\ ~games[g].round_results_sent
        /\ \A f \in Frames :
              (f.g = g /\ f.pc \in {"sr_new", "sr_announce", "sr_dm"}) =>
                  f.n < games[g].round_number}

\* the players of an open round that can still pick and have no timeout task
\* asleep
Unarmed(g) ==
    {u \in ActiveSet(World, g) :
        /\ pl[g][u].current_number = NONE
        /\ \A i \in 1..Len(sleepers) :
              ~(sleepers[i].g = g /\ sleepers[i].u = u)}

\* C26: in an open round every player that is not eliminated and has no
\* number recorded has a timeout task asleep.
C26_OpenPickHasTimer ==
    \A g \in RoundOpen : Unarmed(g) = {}

\* a match is in an open round
OpenRound ==
    \E grp \in Groups :
        active_games[grp] # 0 /\ games[active_games[grp]].current_round_active

\* something is left for the event loop to run: a task that is ready or
\* parked at an await, a handler in flight, or a timeout task asleep
Scheduled == tasks # {} \/ handler # Idle \/ sleepers # <<>>

\* C27: a round that is active is resolved without the players' help: while
\* a round is open, a task, a handler or a timer is left to run, so that the
\* round does not rest until a player sends a number.
C27_RoundIsResolved == OpenRound => Scheduled

\* the matches in an open round in which every player has a number or a miss
\* recorded or is eliminated, and whose results are not being worked out
CompleteRounds ==
    {g \in GameIds :
        /\ \E grp \in Groups : active_games[grp] = g
        /\ games[g].current_round_active
        /\ ~games[g].round_results_sent
        /\ \A u \in Members(World, g) :
              pl[g][u].current_number # NONE \/ pl[g][u].eliminated}

\* C28: a pick whose acknowledgement fails does not block the round: a round
\* whose picks are complete does not come to rest, a task, a handler or a
\* timer is left to run until process_round_results has been called.
C28_FailedAckDoesNotBlock == CompleteRounds # {} => Scheduled

C30_WinnerLosesNoPoint ==
    \A g \in Resolving : \A u \in rr[g].winners : Lost(g, u) = 0

\* the matches with a process_round_results between two of its awaits
BeingResolved ==
    {f.g : f \in {x \in Frames :
                     x.pc \in {"prr_nopicks", "prr_reveal", "prr_results"}}}

\* C31: start_round called while the round of the match collects picks or is
\* being resolved returns with nothing changed; a call that starts a round
\* adds exactly 1 to the round counter.
C31_StartRoundReentry ==
    \A f \in AtStartRound :
        active_games[f.grp] # 0 =>
            LET g == active_games[f.grp]
                r == StartRound(In(f), f)
            IN /\ games[g].current_round_active \/ g \in BeingResolved =>
                      r.w = In(f) /\ r.f = Idle
               /\ r.w # In(f) =>
                      r.w.games[g].round_number = games[g].round_number + 1

\* the match after the round in which user u has its number text accepted:
\* the round is closed and start_round opens the next one
NextRoundAfterPick(u, text) ==
    LET g == MatchOf(u)
        grp == games[g].group_id
        w1 == DmPick(World, u, text).w
        w2 == [w1 EXCEPT !.games[g].current_round_active = FALSE]
    IN StartRound(w2, Fr("sr", "sr_new", grp, g, 0, games[g].round_number)).w

\* C32: the miss counter counts consecutive misses.  A player who missed an
\* earlier round and has a number accepted in this round is, when it misses
\* the next round, handled as for a first miss: one point is taken, the pick
\* is marked Skipped and the player is not eliminated.
C32_MissCounterIsConsecutive ==
    \A u \in Users, text \in PickValues :
        LET g == MatchOf(u) IN
        (/\ g # 0
         /\ DmPick(World, u, text).res = "Accepted"
         /\ pl[g][u].timeout_count = 1) =>
            LET w == NextRoundAfterPick(u, text)
                m == HandleMiss(w, Fr("timer", "sleep", games[g].group_id, g, u,
                                      games[g].round_number + 1)).w
            IN /\ ~m.pl[g][u].eliminated
               /\ m.pl[g][u].current_number = SKIPPED
               /\ m.pl[g][u].score = pl[g][u].score - 1

\* C33: a player that took the penalty of its first miss in a round (its
\* pick is marked Skipped) does not take the generic penalty of the players
\* that did not win when the round is resolved: where neither the duplicate
\* rule, nor 0 against 100, nor the exact-target rule applies, the resolution
\* takes no point from that player.
C33_MissedPlayerNotPenalisedTwice ==
    \A g \in Resolving : \A u \in ActiveBefore(g) :
        (/\ NumberBefore(g, u) = SKIPPED
         /\ ~DuplicateRuleApplies(g)
         /\ ~ZeroHundredBefore(g)
         /\ ~ExactTargetApplies(g)) => Lost(g, u) = 0

\* C34: in a round where the duplicate rule takes a point from some players,
\* every other active player with a number that is not in the winner set
\* takes the generic penalty of one point.
C34_GenericPenaltyBesideDuplicates ==
    \A g \in Resolving :
        DuplicateRuleApplies(g) =>
            \A u \in NumericBefore(g) :
                (Cardinality(SameNumber(g, u)) < 4 /\ u \notin rr[g].winners)
                    => Lost(g, u) = 1


\* C34, as the code has it: in a round where the duplicate rule takes a point
\* from some players, the resolution takes nothing from any other active
\* player, in the winner set or not, with a number or marked Skipped.
C34_DuplicateRoundSparesOthers ==
    \A g \in Resolving :
        DuplicateRuleApplies(g) =>
            \A u \in ActiveBefore(g) :
                ~(u \in NumericBefore(g) /\ Cardinality(SameNumber(g, u)) >= 4)
                    => Lost(g, u) = 0

\* C34, its case: the duplicate rule took a point from four players, and a
\* fifth with a number of its own that is not in the winner set lost nothing
C34_Witness ==
    \E g \in Resolving : \E u \in NumericBefore(g) :
        /\ DuplicateRuleApplies(g)
        /\ Cardinality(SameNumber(g, u)) = 1
        /\ u \notin rr[g].winners
        /\ Lost(g, u) = 0
        /\ \E v \in NumericBefore(g) : Lost(g, v) = 1

\* the resolutions after which the match goes on: more than one player is
\* left when the result message has been sent
Continuing ==
    {f \in Frames : f.pc = "prr_results"
                       /\ Cardinality(ActiveSet(World, f.g)) > 1}

\* some number was sent by four players or more in the round being resolved
FourAlike(g) == \E u \in NumericBefore(g) : Cardinality(SameNumber(g, u)) >= 4

\* the elimination check of the resolution eliminated a player, and nobody
\* was eliminated before it
FirstElimination(g) ==
    /\ \A u \in Members(World, g) : ~rr[g].pre[u].eliminated
    /\ \E u \in Members(World, g) : pl[g][u].eliminated

\* C35: when a match goes on after the resolution of a round, the duplicate
\* rule is active in the next round exactly when the resolved round had a
\* number sent by four players or more, or its elimination check eliminated
\* the first player of the match; whether the rule was active in the
\* resolved round does not matter.
C35_DuplicateRuleNextRound ==
    \A f \in Continuing :
        LET w == PrrFinish(In(f), f).w
        IN /\ w.games[f.g].duplicate_rule_active
                  = (FourAlike(f.g) \/ FirstElimination(f.g))
           /\ ~w.games[f.g].next_round_duplicate_active


\* C35, its case: a round without the duplicate rule and without four equal
\* numbers has been scored, its elimination check eliminated the first
\* player of the match, and the match goes on
C35_Witness ==
    \E f \in Continuing :
        /\ ~games[f.g].duplicate_rule_active
        /\ ~FourAlike(f.g)
        /\ FirstElimination(f.g)
        /\ games[f.g].next_round_duplicate_active

\* the tasks of the join timer and of the pick timeouts that were made for a
\* match whose group has another match registered by now
Outlived ==
    {f \in tasks : /\ f.k \in {"sched", "timer"}
                   /\ active_games[f.grp] \notin {0, f.g}}

\* what a task of a timer does when its await returns
TimerSegment(f) ==
    CASE f.pc = "js_wait" -> JsWake(In(f), f)
      [] f.pc = "ej_cancel_msg" -> EjCancel(In(f), f)
      [] f.pc = "ej_settled_msg" -> StartRound(In(f), f)
      [] f.pc = "hm_msg" -> HmFinish(In(f), f)
      [] OTHER -> R(In(f), f)

\* C36: a timer made for a match changes nothing in a match that was made
\* for the same group after the first was removed: when its task goes on, the
\* later match stays registered, and its fields and its players' records stay
\* as they are.
C36_TimerOfRemovedMatch ==
    \A f \in Outlived :
        LET g == active_games[f.grp]
            w == TimerSegment(f).w
        IN /\ w.ag[f.grp] = g
           /\ w.games[g] = games[g]
           /\ w.pl[g] = pl[g]
           /\ w.uag = user_active_game

\* the matches in the registry whose join phase is closed and that have no
\* round yet
ClosedUnstarted ==
    {grp \in Groups :
        /\ active_games[grp] # 0
        /\ ~games[active_games[grp]].join_phase_active
        /\ games[active_games[grp]].round_number = 0}

\* C37: a message that fails while a match is settled does not block the
\* match: a match whose join phase is closed and that has no round yet has a
\* handler or a task of its group on the way to start_round.
C37_FailedNoticeDoesNotBlock ==
    \A grp \in ClosedUnstarted : \E f \in Frames : f.grp = grp

\* the rounds_played that end_game hands to update_user_after_game for a
\* player: Player.rounds_played, which __init__ sets to 0 and nothing else
\* assigns
RoundsPlayedHanded(w, g, u) == 0

\* C38: the rounds_played handed to the statistics for a player when the
\* match ends is the number of rounds that started while the player was in
\* the match and not eliminated: for a player that is not eliminated, whenever
\* the match may end, it is the round counter of the match.
C38_RoundsPlayedIsCounted ==
    \A grp \in Groups : \A u \in Joined(grp) :
        LET g == active_games[grp]
        IN ~pl[g][u].eliminated =>
               RoundsPlayedHanded(World, g, u) = games[g].round_number

\* the game instances that are the same match before and after a step
SameMatch == {g \in GameIds : games[g].group_id > 0
                                 /\ games'[g].group_id = games[g].group_id}

C40_EliminatedIsFrozen ==
    [][\A g \in SameMatch : \A u \in Members(World, g) :
          pl[g][u].eliminated =>
              /\ pl'[g][u].eliminated
              /\ pl'[g][u].score = pl[g][u].score
              /\ pl'[g][u].total_penalties = pl[g][u].total_penalties
      ]_vars


\* C40, its case: a round of a match with eliminated players has been scored
\* and took points from a player that is not eliminated
C40_Witness ==
    \E g \in Resolving :
        /\ \E u \in Members(World, g) :
               rr[g].pre[u].eliminated /\ pl[g][u] = rr[g].pre[u]
        /\ \E v \in ActiveBefore(g) : Lost(g, v) >= 1

====
